---- MODULE Spec2Model ----
(***************************************************************************)
(* Betacode validation and conversion pipeline of betacode-rs.             *)
(*                                                                         *)
(* A string is a sequence of characters.  An ASCII character is written as *)
(* the one-character TLA+ string holding it ("a", "*", "\\", "\n"); any    *)
(* other character is written by its code point as the source writes it:   *)
(* "\u{03c3}" in the source is "u03c3" here.                               *)
(***************************************************************************)
EXTENDS Naturals, Sequences, FiniteSets, TLC

VARIABLES input, pc, buf, verdict, args, stdout, file, stderr

vars == <<input, pc, buf, verdict, args, stdout, file, stderr>>

\* The variables of the command line program
cli == <<args, stdout, file, stderr>>

-----------------------------------------------------------------------------
(* Characters                                                              *)

AsciiUpper ==
    {"A", "B", "C", "D", "E", "F", "G", "H", "I", "J", "K", "L", "M",
     "N", "O", "P", "Q", "R", "S", "T", "U", "V", "W", "X", "Y", "Z"}

AsciiLower ==
    {"a", "b", "c", "d", "e", "f", "g", "h", "i", "j", "k", "l", "m",
     "n", "o", "p", "q", "r", "s", "t", "u", "v", "w", "x", "y", "z"}

AsciiOther ==
    {"*", "#", "|", ")", "(", "/", "\\", ".", ";", ":", "'", "+", "=", " ",
     "\n", ",", "0", "1", "2", "3", "4", "5", "6", "7", "8", "9", "-", "!",
     "?", "_"}

LowerOf ==
    [c \in AsciiUpper |->
        CASE c = "A" -> "a" [] c = "B" -> "b" [] c = "C" -> "c"
          [] c = "D" -> "d" [] c = "E" -> "e" [] c = "F" -> "f"
          [] c = "G" -> "g" [] c = "H" -> "h" [] c = "I" -> "i"
          [] c = "J" -> "j" [] c = "K" -> "k" [] c = "L" -> "l"
          [] c = "M" -> "m" [] c = "N" -> "n" [] c = "O" -> "o"
          [] c = "P" -> "p" [] c = "Q" -> "q" [] c = "R" -> "r"
          [] c = "S" -> "s" [] c = "T" -> "t" [] c = "U" -> "u"
          [] c = "V" -> "v" [] c = "W" -> "w" [] c = "X" -> "x"
          [] c = "Y" -> "y" [] c = "Z" -> "z"]

UpperOf ==
    [c \in AsciiLower |-> CHOOSE u \in AsciiUpper : LowerOf[u] = c]

Ascii == AsciiUpper \cup AsciiLower \cup AsciiOther

\* char::is_ascii
is_ascii(c) == c \in Ascii

\* The letters outside ASCII that an input of the model may hold: lowercase
\* Greek letters, which str::to_lowercase leaves as they are.
NonAsciiLetters == {"u03b1", "u03bb"}

\* char::is_alphabetic
is_alphabetic(c) == c \in AsciiUpper \cup AsciiLower \cup NonAsciiLetters

\* The letter after the marker kept as typed
to_ascii_uppercase_keep(c) == c

\* char::to_ascii_uppercase
to_ascii_uppercase(c) == IF c \in AsciiLower THEN UpperOf[c] ELSE c

\* The lowering step left out: the text keeps its case
to_lowercase_keep(s) == s

\* str::to_lowercase, on the characters above
to_lowercase(s) ==
    [i \in 1..Len(s) |-> IF s[i] \in AsciiUpper THEN LowerOf[s[i]] ELSE s[i]]

\* str::replace: every non-overlapping occurrence of pat, leftmost first
RECURSIVE ReplaceFrom(_, _, _, _)
ReplaceFrom(s, pat, rep, i) ==
    IF i > Len(s) THEN <<>>
    ELSE IF i + Len(pat) - 1 <= Len(s) /\ SubSeq(s, i, i + Len(pat) - 1) = pat
         THEN rep \o ReplaceFrom(s, pat, rep, i + Len(pat))
         ELSE <<s[i]>> \o ReplaceFrom(s, pat, rep, i + 1)

Replace(s, pat, rep) == ReplaceFrom(s, pat, rep, 1)

-----------------------------------------------------------------------------
(* converter::normalize_unicode: NFKC of the unicode_normalization crate,  *)
(* on the characters the pipeline can hand to it.                          *)

\* The compatibility decompositions among those characters.
Decomposition(c) ==
    CASE c = "u00b3" -> <<"3">>        \* SUPERSCRIPT THREE
      [] c = "u03f2" -> <<"u03c2">>    \* GREEK LUNATE SIGMA SYMBOL
      [] c = "u03f9" -> <<"u03a3">>    \* GREEK CAPITAL LUNATE SIGMA SYMBOL
      [] OTHER -> <<c>>

\* Canonical combining class
Above == {"u0313", "u0314", "u0301", "u0342", "u0300", "u0308"}

canonical_combining_class(c) ==
    IF c \in Above THEN 230 ELSE IF c = "u0345" THEN 240 ELSE 0

\* The primary composites <<starter, mark, composite>> of the Greek letters
\* with the seven combining marks.
Compositions == {
    <<"u0391", "u0300", "u1fba">>, <<"u0391", "u0301", "u0386">>, <<"u0391", "u0313", "u1f08">>,
    <<"u0391", "u0314", "u1f09">>, <<"u0391", "u0345", "u1fbc">>, <<"u0395", "u0300", "u1fc8">>,
    <<"u0395", "u0301", "u0388">>, <<"u0395", "u0313", "u1f18">>, <<"u0395", "u0314", "u1f19">>,
    <<"u0397", "u0300", "u1fca">>, <<"u0397", "u0301", "u0389">>, <<"u0397", "u0313", "u1f28">>,
    <<"u0397", "u0314", "u1f29">>, <<"u0397", "u0345", "u1fcc">>, <<"u0399", "u0300", "u1fda">>,
    <<"u0399", "u0301", "u038a">>, <<"u0399", "u0308", "u03aa">>, <<"u0399", "u0313", "u1f38">>,
    <<"u0399", "u0314", "u1f39">>, <<"u039f", "u0300", "u1ff8">>, <<"u039f", "u0301", "u038c">>,
    <<"u039f", "u0313", "u1f48">>, <<"u039f", "u0314", "u1f49">>, <<"u03a1", "u0314", "u1fec">>,
    <<"u03a5", "u0300", "u1fea">>, <<"u03a5", "u0301", "u038e">>, <<"u03a5", "u0308", "u03ab">>,
    <<"u03a5", "u0314", "u1f59">>, <<"u03a9", "u0300", "u1ffa">>, <<"u03a9", "u0301", "u038f">>,
    <<"u03a9", "u0313", "u1f68">>, <<"u03a9", "u0314", "u1f69">>, <<"u03a9", "u0345", "u1ffc">>,
    <<"u03ac", "u0345", "u1fb4">>, <<"u03ae", "u0345", "u1fc4">>, <<"u03b1", "u0300", "u1f70">>,
    <<"u03b1", "u0301", "u03ac">>, <<"u03b1", "u0313", "u1f00">>, <<"u03b1", "u0314", "u1f01">>,
    <<"u03b1", "u0342", "u1fb6">>, <<"u03b1", "u0345", "u1fb3">>, <<"u03b5", "u0300", "u1f72">>,
    <<"u03b5", "u0301", "u03ad">>, <<"u03b5", "u0313", "u1f10">>, <<"u03b5", "u0314", "u1f11">>,
    <<"u03b7", "u0300", "u1f74">>, <<"u03b7", "u0301", "u03ae">>, <<"u03b7", "u0313", "u1f20">>,
    <<"u03b7", "u0314", "u1f21">>, <<"u03b7", "u0342", "u1fc6">>, <<"u03b7", "u0345", "u1fc3">>,
    <<"u03b9", "u0300", "u1f76">>, <<"u03b9", "u0301", "u03af">>, <<"u03b9", "u0308", "u03ca">>,
    <<"u03b9", "u0313", "u1f30">>, <<"u03b9", "u0314", "u1f31">>, <<"u03b9", "u0342", "u1fd6">>,
    <<"u03bf", "u0300", "u1f78">>, <<"u03bf", "u0301", "u03cc">>, <<"u03bf", "u0313", "u1f40">>,
    <<"u03bf", "u0314", "u1f41">>, <<"u03c1", "u0313", "u1fe4">>, <<"u03c1", "u0314", "u1fe5">>,
    <<"u03c5", "u0300", "u1f7a">>, <<"u03c5", "u0301", "u03cd">>, <<"u03c5", "u0308", "u03cb">>,
    <<"u03c5", "u0313", "u1f50">>, <<"u03c5", "u0314", "u1f51">>, <<"u03c5", "u0342", "u1fe6">>,
    <<"u03c9", "u0300", "u1f7c">>, <<"u03c9", "u0301", "u03ce">>, <<"u03c9", "u0313", "u1f60">>,
    <<"u03c9", "u0314", "u1f61">>, <<"u03c9", "u0342", "u1ff6">>, <<"u03c9", "u0345", "u1ff3">>,
    <<"u03ca", "u0300", "u1fd2">>, <<"u03ca", "u0301", "u0390">>, <<"u03ca", "u0342", "u1fd7">>,
    <<"u03cb", "u0300", "u1fe2">>, <<"u03cb", "u0301", "u03b0">>, <<"u03cb", "u0342", "u1fe7">>,
    <<"u03ce", "u0345", "u1ff4">>, <<"u1f00", "u0300", "u1f02">>, <<"u1f00", "u0301", "u1f04">>,
    <<"u1f00", "u0342", "u1f06">>, <<"u1f00", "u0345", "u1f80">>, <<"u1f01", "u0300", "u1f03">>,
    <<"u1f01", "u0301", "u1f05">>, <<"u1f01", "u0342", "u1f07">>, <<"u1f01", "u0345", "u1f81">>,
    <<"u1f02", "u0345", "u1f82">>, <<"u1f03", "u0345", "u1f83">>, <<"u1f04", "u0345", "u1f84">>,
    <<"u1f05", "u0345", "u1f85">>, <<"u1f06", "u0345", "u1f86">>, <<"u1f07", "u0345", "u1f87">>,
    <<"u1f08", "u0300", "u1f0a">>, <<"u1f08", "u0301", "u1f0c">>, <<"u1f08", "u0342", "u1f0e">>,
    <<"u1f08", "u0345", "u1f88">>, <<"u1f09", "u0300", "u1f0b">>, <<"u1f09", "u0301", "u1f0d">>,
    <<"u1f09", "u0342", "u1f0f">>, <<"u1f09", "u0345", "u1f89">>, <<"u1f0a", "u0345", "u1f8a">>,
    <<"u1f0b", "u0345", "u1f8b">>, <<"u1f0c", "u0345", "u1f8c">>, <<"u1f0d", "u0345", "u1f8d">>,
    <<"u1f0e", "u0345", "u1f8e">>, <<"u1f0f", "u0345", "u1f8f">>, <<"u1f10", "u0300", "u1f12">>,
    <<"u1f10", "u0301", "u1f14">>, <<"u1f11", "u0300", "u1f13">>, <<"u1f11", "u0301", "u1f15">>,
    <<"u1f18", "u0300", "u1f1a">>, <<"u1f18", "u0301", "u1f1c">>, <<"u1f19", "u0300", "u1f1b">>,
    <<"u1f19", "u0301", "u1f1d">>, <<"u1f20", "u0300", "u1f22">>, <<"u1f20", "u0301", "u1f24">>,
    <<"u1f20", "u0342", "u1f26">>, <<"u1f20", "u0345", "u1f90">>, <<"u1f21", "u0300", "u1f23">>,
    <<"u1f21", "u0301", "u1f25">>, <<"u1f21", "u0342", "u1f27">>, <<"u1f21", "u0345", "u1f91">>,
    <<"u1f22", "u0345", "u1f92">>, <<"u1f23", "u0345", "u1f93">>, <<"u1f24", "u0345", "u1f94">>,
    <<"u1f25", "u0345", "u1f95">>, <<"u1f26", "u0345", "u1f96">>, <<"u1f27", "u0345", "u1f97">>,
    <<"u1f28", "u0300", "u1f2a">>, <<"u1f28", "u0301", "u1f2c">>, <<"u1f28", "u0342", "u1f2e">>,
    <<"u1f28", "u0345", "u1f98">>, <<"u1f29", "u0300", "u1f2b">>, <<"u1f29", "u0301", "u1f2d">>,
    <<"u1f29", "u0342", "u1f2f">>, <<"u1f29", "u0345", "u1f99">>, <<"u1f2a", "u0345", "u1f9a">>,
    <<"u1f2b", "u0345", "u1f9b">>, <<"u1f2c", "u0345", "u1f9c">>, <<"u1f2d", "u0345", "u1f9d">>,
    <<"u1f2e", "u0345", "u1f9e">>, <<"u1f2f", "u0345", "u1f9f">>, <<"u1f30", "u0300", "u1f32">>,
    <<"u1f30", "u0301", "u1f34">>, <<"u1f30", "u0342", "u1f36">>, <<"u1f31", "u0300", "u1f33">>,
    <<"u1f31", "u0301", "u1f35">>, <<"u1f31", "u0342", "u1f37">>, <<"u1f38", "u0300", "u1f3a">>,
    <<"u1f38", "u0301", "u1f3c">>, <<"u1f38", "u0342", "u1f3e">>, <<"u1f39", "u0300", "u1f3b">>,
    <<"u1f39", "u0301", "u1f3d">>, <<"u1f39", "u0342", "u1f3f">>, <<"u1f40", "u0300", "u1f42">>,
    <<"u1f40", "u0301", "u1f44">>, <<"u1f41", "u0300", "u1f43">>, <<"u1f41", "u0301", "u1f45">>,
    <<"u1f48", "u0300", "u1f4a">>, <<"u1f48", "u0301", "u1f4c">>, <<"u1f49", "u0300", "u1f4b">>,
    <<"u1f49", "u0301", "u1f4d">>, <<"u1f50", "u0300", "u1f52">>, <<"u1f50", "u0301", "u1f54">>,
    <<"u1f50", "u0342", "u1f56">>, <<"u1f51", "u0300", "u1f53">>, <<"u1f51", "u0301", "u1f55">>,
    <<"u1f51", "u0342", "u1f57">>, <<"u1f59", "u0300", "u1f5b">>, <<"u1f59", "u0301", "u1f5d">>,
    <<"u1f59", "u0342", "u1f5f">>, <<"u1f60", "u0300", "u1f62">>, <<"u1f60", "u0301", "u1f64">>,
    <<"u1f60", "u0342", "u1f66">>, <<"u1f60", "u0345", "u1fa0">>, <<"u1f61", "u0300", "u1f63">>,
    <<"u1f61", "u0301", "u1f65">>, <<"u1f61", "u0342", "u1f67">>, <<"u1f61", "u0345", "u1fa1">>,
    <<"u1f62", "u0345", "u1fa2">>, <<"u1f63", "u0345", "u1fa3">>, <<"u1f64", "u0345", "u1fa4">>,
    <<"u1f65", "u0345", "u1fa5">>, <<"u1f66", "u0345", "u1fa6">>, <<"u1f67", "u0345", "u1fa7">>,
    <<"u1f68", "u0300", "u1f6a">>, <<"u1f68", "u0301", "u1f6c">>, <<"u1f68", "u0342", "u1f6e">>,
    <<"u1f68", "u0345", "u1fa8">>, <<"u1f69", "u0300", "u1f6b">>, <<"u1f69", "u0301", "u1f6d">>,
    <<"u1f69", "u0342", "u1f6f">>, <<"u1f69", "u0345", "u1fa9">>, <<"u1f6a", "u0345", "u1faa">>,
    <<"u1f6b", "u0345", "u1fab">>, <<"u1f6c", "u0345", "u1fac">>, <<"u1f6d", "u0345", "u1fad">>,
    <<"u1f6e", "u0345", "u1fae">>, <<"u1f6f", "u0345", "u1faf">>, <<"u1f70", "u0345", "u1fb2">>,
    <<"u1f74", "u0345", "u1fc2">>, <<"u1f7c", "u0345", "u1ff2">>, <<"u1fb6", "u0345", "u1fb7">>,
    <<"u1fc6", "u0345", "u1fc7">>, <<"u1ff6", "u0345", "u1ff7">>}

ComposeTable ==
    [p \in {<<t[1], t[2]>> : t \in Compositions} |->
        (CHOOSE t \in Compositions : <<t[1], t[2]>> = p)[3]]

\* Step 1: compatibility decomposition of every character
RECURSIVE decompose(_)
decompose(s) ==
    IF s = <<>> THEN <<>> ELSE Decomposition(Head(s)) \o decompose(Tail(s))

\* Step 2: canonical ordering; within a run of combining marks a mark moves
\* left past every mark of a greater class (a stable sort by class).
RECURSIVE insert_mark(_, _)
insert_mark(p, c) ==
    IF p = <<>> \/ canonical_combining_class(c) = 0
       \/ canonical_combining_class(p[Len(p)]) = 0
       \/ canonical_combining_class(p[Len(p)]) <= canonical_combining_class(c)
    THEN Append(p, c)
    ELSE Append(insert_mark(SubSeq(p, 1, Len(p) - 1), c), p[Len(p)])

RECURSIVE canonical_order(_, _)
canonical_order(done, rest) ==
    IF rest = <<>> THEN done
    ELSE canonical_order(insert_mark(done, Head(rest)), Tail(rest))

\* Step 3: canonical composition; sp is the place in out of the last starter
\* (0 when there is none).  A mark composes with that starter when the pair
\* has a primary composite and no mark of an equal or greater class stands
\* between them.
RECURSIVE recompose(_, _, _)
recompose(out, sp, rest) ==
    IF rest = <<>> THEN out
    ELSE LET c == Head(rest)
             free == Len(out) = sp
                     \/ canonical_combining_class(out[Len(out)])
                            < canonical_combining_class(c)
         IN IF sp > 0 /\ free /\ <<out[sp], c>> \in DOMAIN ComposeTable
            THEN recompose([out EXCEPT ![sp] = ComposeTable[<<out[sp], c>>]],
                           sp, Tail(rest))
            ELSE recompose(Append(out, c),
                           IF canonical_combining_class(c) = 0
                           THEN Len(out) + 1 ELSE sp,
                           Tail(rest))

normalize_unicode(s) ==
    recompose(<<>>, 0, canonical_order(<<>>, decompose(s)))

-----------------------------------------------------------------------------
(* converter::find_upper                                                   *)

\* The loop reading a first character even of an empty text
find_upper_panics_empty(s) ==
    Len(s) = 0 \/ \E i \in 1..Len(s) : s[i] = "*" /\ i + 1 > Len(s)

\* The first loop reads ascii_chars[i + 1] for every "*" at place i; the
\* read is out of bounds, and the call panics, when a "*" is the last
\* character.
find_upper_panics(s) ==
    \E i \in 1..Len(s) : s[i] = "*" /\ i + 1 > Len(s)

RECURSIVE upper_loop(_, _, _)
upper_loop(ascii_chars, ascii_enum, i) ==
    IF i > Len(ascii_enum) THEN ascii_chars
    ELSE IF ascii_enum[i] = "*" /\ is_alphabetic(ascii_chars[i + 1])
         THEN upper_loop([ascii_chars EXCEPT
                              ![i + 1] = to_ascii_uppercase(ascii_chars[i + 1])],
                         ascii_enum, i + 1)
         ELSE upper_loop(ascii_chars, ascii_enum, i + 1)

\* Every "*" followed by any character replaced by that character
RECURSIVE strip_marker_any(_, _)
strip_marker_any(s, i) ==
    IF i > Len(s) THEN <<>>
    ELSE IF s[i] = "*" /\ i < Len(s)
         THEN <<s[i + 1]>> \o strip_marker_any(s, i + 2)
         ELSE <<s[i]>> \o strip_marker_any(s, i + 1)

\* Every "*" followed by an ASCII letter is replaced by that letter.
RECURSIVE strip_marker(_, _)
strip_marker(s, i) ==
    IF i > Len(s) THEN <<>>
    ELSE IF s[i] = "*" /\ i < Len(s) /\ s[i + 1] \in AsciiUpper \cup AsciiLower
         THEN <<s[i + 1]>> \o strip_marker(s, i + 2)
         ELSE <<s[i]>> \o strip_marker(s, i + 1)

\* Defined when the call does not panic.
find_upper(s) == strip_marker(upper_loop(s, s, 1), 1)

-----------------------------------------------------------------------------
(* converter::reorder_diacritics                                           *)
(* The pattern is: any sub-iotas (group 1), one accent (group 2), any      *)
(* sub-iotas (group 3), one breathing or diaeresis (group 4); every match  *)
(* is replaced by groups 4, 2, 1, 3.                                       *)

Accents == {"\\", "/", "="}

Breathings == {"(", ")", "+"}

\* The number of "|" from place i on
RECURSIVE bars(_, _)
bars(s, i) == IF i <= Len(s) /\ s[i] = "|" THEN 1 + bars(s, i + 1) ELSE 0

\* The pattern without its second group of sub-iotas: the breathing has to
\* stand immediately after the accent
reorder_match_adjacent(s, i) ==
    LET n1 == bars(s, i)
        a  == i + n1
    IN IF a < Len(s) /\ s[a] \in Accents /\ s[a + 1] \in Breathings
       THEN n1 + 2
       ELSE 0

\* The length of the match that starts at place i, 0 when there is none.
\* The three character classes are disjoint, so the greedy match is the
\* only one.
reorder_match(s, i) ==
    LET n1 == bars(s, i)
        a  == i + n1
        n3 == bars(s, a + 1)
        b  == a + 1 + n3
    IN IF a <= Len(s) /\ s[a] \in Accents /\ b <= Len(s) /\ s[b] \in Breathings
       THEN n1 + 1 + n3 + 1
       ELSE 0

RECURSIVE reorder_from(_, _)
reorder_from(s, i) ==
    IF i > Len(s) THEN <<>>
    ELSE LET n  == reorder_match(s, i)
             n1 == bars(s, i)
         IN IF n > 0
            THEN <<s[i + n - 1], s[i + n1]>>
                     \o SubSeq(s, i, i + n1 - 1)
                     \o SubSeq(s, i + n1 + 1, i + n - 2)
                     \o reorder_from(s, i + n)
            ELSE <<s[i]>> \o reorder_from(s, i + 1)

\* The reordering step left out: the marks keep the order they were typed in
reorder_diacritics_off(s) == s

reorder_diacritics(s) == reorder_from(s, 1)

-----------------------------------------------------------------------------
(* converter::ascii_to_unicode: the chain of str::replace calls, in the    *)
(* order of the source, each entry <<pattern, replacement>>.               *)

Substitutions == <<
    << <<")">>, <<"u0313">> >>, << <<"(">>, <<"u0314">> >>,
    << <<"/">>, <<"u0301">> >>, << <<"=">>, <<"u0342">> >>,
    << <<"\\">>, <<"u0300">> >>, << <<"+">>, <<"u0308">> >>,
    << <<"|">>, <<"u0345">> >>, << <<"A">>, <<"u0391">> >>,
    << <<"a">>, <<"u03b1">> >>, << <<"B">>, <<"u0392">> >>,
    << <<"b">>, <<"u03b2">> >>, << <<"C">>, <<"u039e">> >>,
    << <<"c">>, <<"u03be">> >>, << <<"D">>, <<"u0394">> >>,
    << <<"d">>, <<"u03b4">> >>, << <<"E">>, <<"u0395">> >>,
    << <<"e">>, <<"u03b5">> >>, << <<"F">>, <<"u03a6">> >>,
    << <<"f">>, <<"u03c6">> >>, << <<"G">>, <<"u0393">> >>,
    << <<"g">>, <<"u03b3">> >>, << <<"H">>, <<"u0397">> >>,
    << <<"h">>, <<"u03b7">> >>, << <<"I">>, <<"u0399">> >>,
    << <<"i">>, <<"u03b9">> >>, << <<"K">>, <<"u039a">> >>,
    << <<"k">>, <<"u03ba">> >>, << <<"L">>, <<"u039b">> >>,
    << <<"l">>, <<"u03bb">> >>, << <<"M">>, <<"u039c">> >>,
    << <<"m">>, <<"u03bc">> >>, << <<"N">>, <<"u039d">> >>,
    << <<"n">>, <<"u03bd">> >>, << <<"O">>, <<"u039f">> >>,
    << <<"o">>, <<"u03bf">> >>, << <<"P">>, <<"u03a0">> >>,
    << <<"p">>, <<"u03c0">> >>, << <<"Q">>, <<"u0398">> >>,
    << <<"q">>, <<"u03b8">> >>, << <<"R">>, <<"u03a1">> >>,
    << <<"r">>, <<"u03c1">> >>, << <<"S">>, <<"u03a3">> >>,
    << <<"s">>, <<"u03c3">> >>, << <<"T">>, <<"u03a4">> >>,
    << <<"t">>, <<"u03c4">> >>, << <<"U">>, <<"u03a5">> >>,
    << <<"u">>, <<"u03c5">> >>, << <<"V">>, <<"u03dc">> >>,
    << <<"v">>, <<"u03dd">> >>, << <<"W">>, <<"u03a9">> >>,
    << <<"w">>, <<"u03c9">> >>, << <<"X">>, <<"u03a7">> >>,
    << <<"x">>, <<"u03c7">> >>, << <<"Y">>, <<"u03a8">> >>,
    << <<"y">>, <<"u03c8">> >>, << <<"Z">>, <<"u0396">> >>,
    << <<"z">>, <<"u03b6">> >>, << <<"*", "#", "1">>, <<"u03de">> >>,
    << <<"#", "1">>, <<"u03df">> >>, << <<"*", "#", "2">>, <<"u03da">> >>,
    << <<"#", "2">>, <<"u03db">> >>, << <<"*", "#", "3">>, <<"u03d8">> >>,
    << <<"#", "3">>, <<"u03d9">> >>, << <<"*", "#", "5">>, <<"u03e0">> >>,
    << <<"#", "5">>, <<"u03e1">> >>, << <<";">>, <<"u00b3">> >>,
    << <<":">>, <<"u00b7">> >>
>>

\* The calls from the k-th on, applied to s
RECURSIVE substitute(_, _)
substitute(s, k) ==
    IF k > Len(Substitutions) \/ Len(s) = 0 THEN s
    ELSE substitute(Replace(s, Substitutions[k][1], Substitutions[k][2]),
                    k + 1)

ascii_to_unicode(s) == substitute(s, 1)

-----------------------------------------------------------------------------
(* converter::sigma_handler                                                *)

\* The character class of the first final-sigma pattern
FinalSigmaFollowers ==
    {"2", " ", ".", ",", "u00b7", ";", "u2019", "u2010", "u2014", "\n"}

\* Medial sigma followed by a character of the class becomes final sigma.
RECURSIVE final_sigma_before(_, _)
final_sigma_before(s, i) ==
    IF i > Len(s) THEN <<>>
    ELSE IF s[i] = "u03c3" /\ i < Len(s) /\ s[i + 1] \in FinalSigmaFollowers
         THEN <<"u03c2", s[i + 1]>> \o final_sigma_before(s, i + 2)
         ELSE <<s[i]>> \o final_sigma_before(s, i + 1)

\* The sigma at the end of the text left as it is
final_sigma_at_end_off(s) == s

\* Medial sigma at the end of the text becomes final sigma.
final_sigma_at_end(s) ==
    IF Len(s) > 0 /\ s[Len(s)] = "u03c3"
    THEN [s EXCEPT ![Len(s)] = "u03c2"]
    ELSE s

sigma_handler(s) ==
    LET output == final_sigma_at_end(final_sigma_before(s, 1))
    IN Replace(Replace(Replace(output, <<"s", "1">>, <<"u03c2">>),
                       <<"s", "3">>, <<"u03f2">>),
               <<"S", "3">>, <<"u03f9">>)

-----------------------------------------------------------------------------
(* converter::convert as one function: the text it returns, or Panic.      *)

Panic == <<"panic">>

convert(x) ==
    LET lowered == to_lowercase(x)
    IN IF find_upper_panics(lowered) THEN Panic
       ELSE normalize_unicode(sigma_handler(ascii_to_unicode(
                reorder_diacritics(find_upper(lowered)))))

-----------------------------------------------------------------------------
(* converter::revert.  The command line program and the test revert_ok     *)
(* call it, but its body is not in the source tree; it is modelled from    *)
(* its contract: every precomposed letter is taken apart into its letter   *)
(* and marks, each of them is replaced by its Betacode token (the table of *)
(* ascii_to_unicode read from right to left), a capital is written with    *)
(* the capital marker, and the final sigma is written as plain sigma.      *)

\* The canonical decomposition of a character
RECURSIVE canonical_decomposition(_)
canonical_decomposition(c) ==
    IF \E t \in Compositions : t[3] = c
    THEN LET t == CHOOSE u \in Compositions : u[3] = c
         IN canonical_decomposition(t[1]) \o <<t[2]>>
    ELSE <<c>>

\* The Betacode token of a character
token_of(c) ==
    IF \E k \in 1..Len(Substitutions) : Substitutions[k][2] = <<c>>
    THEN LET k == CHOOSE n \in 1..Len(Substitutions) :
                      Substitutions[n][2] = <<c>>
             pat == Substitutions[k][1]
         IN IF pat[1] \in AsciiUpper THEN <<"*", LowerOf[pat[1]]>> ELSE pat
    ELSE IF c = "u03c2" THEN <<"s">>
    ELSE <<c>>

RECURSIVE tokens_of(_)
tokens_of(s) ==
    IF s = <<>> THEN <<>> ELSE token_of(Head(s)) \o tokens_of(Tail(s))

RECURSIVE decompose_canonical(_)
decompose_canonical(s) ==
    IF s = <<>> THEN <<>>
    ELSE canonical_decomposition(Head(s)) \o decompose_canonical(Tail(s))

revert(x) == tokens_of(decompose_canonical(x))

-----------------------------------------------------------------------------
(* validator                                                               *)

\* Result<(), ValidationError>: the variant and the list it carries
Ok == [tag |-> "Ok", list |-> <<>>]

NotASCII(v) == [tag |-> "NotASCII", list |-> v]

InvalidChars(v) == [tag |-> "InvalidChars", list |-> v]

InvalidDiacriticOrder(v) == [tag |-> "InvalidDiacriticOrder", list |-> v]

\* Vec::dedup: removes consecutive repeated elements
RECURSIVE dedup(_)
dedup(v) ==
    IF Len(v) <= 1 THEN v
    ELSE IF v[1] = v[2] THEN dedup(Tail(v))
         ELSE <<v[1]>> \o dedup(Tail(v))

\* Iterator::filter, keeping the characters outside the set allowed
RECURSIVE reject(_, _)
reject(v, allowed) ==
    IF v = <<>> THEN <<>>
    ELSE IF Head(v) \in allowed THEN reject(Tail(v), allowed)
         ELSE <<Head(v)>> \o reject(Tail(v), allowed)

check_ascii(x) ==
    IF \E i \in 1..Len(x) : ~is_ascii(x[i])
    THEN NotASCII(dedup(reject(x, Ascii)))
    ELSE Ok

\* The pattern of diacritics_ordered has three alternatives:
\*   a sub-iota followed by one or more of ( ) / \ +
\*   an accent / or \ followed by one of ( ) +
\*   a consonant or a space followed by one or more of ( ) \ / + |
AfterSubIota == {"(", ")", "/", "\\", "+"}

AcuteGrave == {"\\", "/"}

Consonants ==
    {"q", "r", "t", "y", "p", "s", "d", "f", "g", "k", "l", "m", "n", "b",
     "c", "x", "z", " "}

AfterConsonant == {"(", ")", "\\", "/", "+", "|"}

\* The number of characters of class from place i on
RECURSIVE run(_, _, _)
run(s, i, class) ==
    IF i <= Len(s) /\ s[i] \in class THEN 1 + run(s, i + 1, class) ELSE 0

\* The length of the match that starts at place i, 0 when there is none.
order_match(s, i) ==
    IF s[i] = "|" /\ run(s, i + 1, AfterSubIota) > 0
    THEN 1 + run(s, i + 1, AfterSubIota)
    ELSE IF s[i] \in AcuteGrave /\ i < Len(s) /\ s[i + 1] \in Breathings
    THEN 2
    ELSE IF s[i] \in Consonants /\ run(s, i + 1, AfterConsonant) > 0
    THEN 1 + run(s, i + 1, AfterConsonant)
    ELSE 0

\* Regex::find_iter: the non-overlapping matches, left to right
RECURSIVE find_iter(_, _)
find_iter(s, i) ==
    IF i > Len(s) THEN <<>>
    ELSE LET n == order_match(s, i)
         IN IF n > 0
            THEN <<SubSeq(s, i, i + n - 1)>> \o find_iter(s, i + n)
            ELSE find_iter(s, i + 1)

diacritics_ordered(x) ==
    LET matches == find_iter(x, 1)
    IN IF Len(matches) = 0 THEN Ok ELSE InvalidDiacriticOrder(matches)

valid_chars ==
    {"A", "B", "C", "D", "E", "F", "G", "H", "I", "K", "L", "M", "N", "O",
     "P", "Q", "R", "S", "T", "U", "V", "W", "X", "Y", "Z", "a", "b", "c",
     "d", "e", "f", "g", "h", "i", "k", "l", "m", "n", "o", "p", "q", "r",
     "s", "t", "u", "v", "w", "x", "y", "z", "*", "#", "|", ")", "(", "/",
     "\\", ".", ";", ":", "1", "2", "3", ",", "'", "+", "=", " ", "\n"}

standard_characteres(x) ==
    IF \A i \in 1..Len(x) : x[i] \in valid_chars
    THEN Ok
    ELSE InvalidChars(dedup(reject(x, valid_chars)))

\* validator::validate as one function: the first check that fails decides.
validate(x) ==
    IF check_ascii(x) # Ok THEN check_ascii(x)
    ELSE IF diacritics_ordered(x) # Ok THEN diacritics_ordered(x)
    ELSE standard_characteres(x)

-----------------------------------------------------------------------------
(* The command line program (cli/src/main.rs)                              *)

\* Option: None, or Some(value)
None == <<>>

Some(v) == <<v>>

\* Result<String, ValidationError> of the line functions: the text, the
\* validation error (as validate returns it), or the panic of convert
OkString(s) == [tag |-> "OkString", list |-> s]

Panicked == [tag |-> "panic", list |-> <<>>]

Converted(x) == IF convert(x) = Panic THEN Panicked ELSE OkString(convert(x))

convert_line(x) ==
    LET e == validate(x)
    IN IF e = Ok THEN Converted(x)
       ELSE IF e.tag = "InvalidDiacriticOrder" THEN Converted(x)
       ELSE IF e.tag = "MixedCaseNotation" THEN Converted(x)
       ELSE e

revert_line(x) == revert(x)

convert_line_strict(x) ==
    LET e == validate(x)
    IN IF e = Ok THEN Converted(x) ELSE e

\* println!: the text and a line end
println(s) == s \o <<"\n">>

\* The diagnostics of main
NotAsciiMessage == "Text passed is not in ASCII."

StandardsMessage ==
    "Text passed violates ASCII Betacode standards as applied here."

MixedCaseMessage ==
    "Text passed contains both * and upper case ASCII for Greek Upper notation."

\* Args before main has parsed the command line
NotParsed == [strict |-> FALSE, inverse |-> FALSE, output |-> None]

\* The output paths a command line names
Paths == {"out.txt"}

-----------------------------------------------------------------------------
(* The state: the text a caller passes (input), the statement the call is  *)
(* at (pc), the local `output` of convert or the text a function returned  *)
(* (buf) and the value validate returned (verdict).  A caller converts or  *)
(* validates its input, calls find_upper or reorder_diacritics on it, or   *)
(* runs the command line program with the input as its text: args are the  *)
(* parsed arguments, stdout and stderr what the program printed, file the  *)
(* content of the file at the output path (None while it is not written).  *)

NotReturned == [tag |-> "none", list |-> <<>>]

\* convert: let mut output = input.into().to_lowercase();
ConvertLower ==
    /\ pc = "start"
    /\ buf' = to_lowercase(input)
    /\ pc' = "find_upper"
    /\ UNCHANGED <<input, verdict, args, stdout, file, stderr>>

\* convert: output = find_upper(output);
ConvertFindUpper ==
    /\ pc = "find_upper"
    /\ IF find_upper_panics(buf)
       THEN pc' = "panicked" /\ buf' = buf
       ELSE pc' = "reorder_diacritics" /\ buf' = find_upper(buf)
    /\ UNCHANGED <<input, verdict, args, stdout, file, stderr>>

\* convert: output = reorder_diacritics(output);
ConvertReorder ==
    /\ pc = "reorder_diacritics"
    /\ buf' = reorder_diacritics(buf)
    /\ pc' = "ascii_to_unicode"
    /\ UNCHANGED <<input, verdict, args, stdout, file, stderr>>

\* convert: output = ascii_to_unicode(output);
ConvertSubstitute ==
    /\ pc = "ascii_to_unicode"
    /\ buf' = ascii_to_unicode(buf)
    /\ pc' = "sigma_handler"
    /\ UNCHANGED <<input, verdict, args, stdout, file, stderr>>

\* convert: output = sigma_handler(output);
ConvertSigma ==
    /\ pc = "sigma_handler"
    /\ buf' = sigma_handler(buf)
    /\ pc' = "normalize_unicode"
    /\ UNCHANGED <<input, verdict, args, stdout, file, stderr>>

\* convert: output = normalize_unicode(output); output
ConvertNormalize ==
    /\ pc = "normalize_unicode"
    /\ buf' = normalize_unicode(buf)
    /\ pc' = "converted"
    /\ UNCHANGED <<input, verdict, args, stdout, file, stderr>>

\* The ASCII check left out: validate starts at the diacritic-order check
ValidateAsciiSkipped ==
    /\ pc = "start"
    /\ pc' = "diacritics_ordered"
    /\ UNCHANGED <<input, buf, verdict, args, stdout, file, stderr>>

\* validate: check_ascii(&input)?;
ValidateAscii ==
    /\ pc = "start"
    /\ IF check_ascii(input) # Ok
       THEN verdict' = check_ascii(input) /\ pc' = "validated"
       ELSE verdict' = verdict /\ pc' = "diacritics_ordered"
    /\ UNCHANGED <<input, buf, args, stdout, file, stderr>>

\* validate: diacritics_ordered(&input)?;
ValidateDiacritics ==
    /\ pc = "diacritics_ordered"
    /\ IF diacritics_ordered(input) # Ok
       THEN verdict' = diacritics_ordered(input) /\ pc' = "validated"
       ELSE verdict' = verdict /\ pc' = "standard_characteres"
    /\ UNCHANGED <<input, buf, args, stdout, file, stderr>>

\* validate: standard_characteres(input)?; Ok(())
ValidateChars ==
    /\ pc = "standard_characteres"
    /\ verdict' = standard_characteres(input)
    /\ pc' = "validated"
    /\ UNCHANGED <<input, buf, args, stdout, file, stderr>>

\* A call of find_upper on the input
FindUpper ==
    /\ pc = "start"
    /\ IF find_upper_panics(input)
       THEN pc' = "find_upper_panicked" /\ buf' = buf
       ELSE pc' = "find_upper_returned" /\ buf' = find_upper(input)
    /\ UNCHANGED <<input, verdict, args, stdout, file, stderr>>

\* A call of reorder_diacritics on the input
ReorderDiacritics ==
    /\ pc = "start"
    /\ buf' = reorder_diacritics(input)
    /\ pc' = "reorder_diacritics_returned"
    /\ UNCHANGED <<input, verdict, args, stdout, file, stderr>>

\* fs::write(PathBuf::from(path), string) and the match on its result: the
\* write succeeds, or fails with an error that is printed before exit(1)
WriteOrExit(string) ==
    \/ /\ file' = Some(string)
       /\ pc' = "exit_ok"
       /\ UNCHANGED <<stdout, stderr>>
    \/ /\ stderr' = <<"io error">>
       /\ pc' = "exit_1"
       /\ UNCHANGED <<stdout, file>>

\* The arms of main for an error of the line functions
ExitWith(message, e) ==
    /\ stderr' = <<message, e>>
    /\ pc' = "exit_1"
    /\ UNCHANGED <<stdout, file>>

\* main with args.inverse set and the text given
MainInverse ==
    /\ pc = "start"
    /\ \E strict \in BOOLEAN, output \in {None} \cup {Some(p) : p \in Paths} :
          /\ args' = [strict |-> strict, inverse |-> TRUE, output |-> output]
          /\ LET string == revert_line(input)
             IN IF output = None
                THEN /\ stdout' = println(revert_line(string))
                     /\ pc' = "exit_ok"
                     /\ UNCHANGED <<file, stderr>>
                ELSE WriteOrExit(string)
    /\ UNCHANGED <<input, buf, verdict>>

\* main with args.strict set (and not args.inverse) and the text given
MainStrict ==
    /\ pc = "start"
    /\ \E output \in {None} \cup {Some(p) : p \in Paths} :
          /\ args' = [strict |-> TRUE, inverse |-> FALSE, output |-> output]
          /\ LET r == convert_line_strict(input)
             IN CASE r.tag = "OkString" ->
                       /\ stdout' = println(r.list)
                       /\ pc' = "exit_ok"
                       /\ UNCHANGED <<file, stderr>>
                  [] r.tag = "panic" ->
                       /\ pc' = "main_panicked"
                       /\ UNCHANGED <<stdout, file, stderr>>
                  [] r.tag = "NotASCII" -> ExitWith(NotAsciiMessage, r)
                  [] r.tag = "InvalidChars" -> ExitWith(StandardsMessage, r)
                  [] r.tag = "InvalidDiacriticOrder" ->
                       ExitWith(StandardsMessage, r)
                  [] r.tag = "MixedCaseNotation" ->
                       ExitWith(MixedCaseMessage, r)
    /\ UNCHANGED <<input, buf, verdict>>

\* main with neither args.inverse nor args.strict and the text given
MainDefault ==
    /\ pc = "start"
    /\ \E output \in {None} \cup {Some(p) : p \in Paths} :
          /\ args' = [strict |-> FALSE, inverse |-> FALSE, output |-> output]
          /\ LET r == convert_line(input)
             IN CASE r.tag = "OkString" ->
                       IF output = None
                       THEN /\ stdout' = println(r.list)
                            /\ pc' = "exit_ok"
                            /\ UNCHANGED <<file, stderr>>
                       ELSE WriteOrExit(r.list)
                  [] r.tag = "panic" ->
                       /\ pc' = "main_panicked"
                       /\ UNCHANGED <<stdout, file, stderr>>
                  [] r.tag = "NotASCII" -> ExitWith(NotAsciiMessage, r)
                  [] r.tag = "InvalidChars" -> ExitWith(StandardsMessage, r)
                  [] OTHER ->
                       /\ pc' = "exit_ok"
                       /\ UNCHANGED <<stdout, file, stderr>>
    /\ UNCHANGED <<input, buf, verdict>>

Next ==
    \/ ConvertLower
    \/ ConvertFindUpper
    \/ ConvertReorder
    \/ ConvertSubstitute
    \/ ConvertSigma
    \/ ConvertNormalize
    \/ ValidateAscii
    \/ ValidateDiacritics
    \/ ValidateChars
    \/ FindUpper
    \/ ReorderDiacritics
    \/ MainInverse
    \/ MainStrict
    \/ MainDefault

\* All strings of at most n characters of alphabet
Strings(alphabet, n) == UNION {[1..k -> alphabet] : k \in 0..n}

MaxLen == 3

InitWith(texts) ==
    /\ input \in texts
    /\ pc = "start"
    /\ buf = <<>>
    /\ verdict = NotReturned
    /\ args = NotParsed
    /\ stdout = <<>>
    /\ file = None
    /\ stderr = <<>>

\* Texts with sigmas, sigma markers, capital markers and word boundaries
SigmaChars == {"a", "s", "*", "1", "3", " ", ".", ",", ";", ":", "'", "\n"}

Init == InitWith(Strings(SigmaChars, MaxLen))

Spec == Init /\ [][Next]_vars

\* Texts of one base letter, a run of diacritic marks and what follows it;
\* a run has at most one breathing or diaeresis and at most one accent, and
\* any number of sub-iotas
Marks == Breathings \cup Accents \cup {"|"}

MaxMarks == 3

MarkRuns ==
    {m \in Strings(Marks, MaxMarks) :
        /\ Cardinality({i \in 1..Len(m) : m[i] \in Breathings}) <= 1
        /\ Cardinality({i \in 1..Len(m) : m[i] \in Accents}) <= 1}

ClusterTexts ==
    {<<b>> \o m \o post :
        b \in {"a", "e", "h", "i", "o", "u", "w", "r", "s"},
        m \in MarkRuns,
        post \in {<<>>, <<"a">>}}

InitCluster == InitWith(ClusterTexts)

SpecCluster == InitCluster /\ [][Next]_vars

\* Texts for the validator: letters, marks, ASCII characters outside the
\* alphabet and characters outside ASCII
ValidatorChars ==
    {"a", "r", " ", "(", "/", "=", "|", "9", "j", "u03bb", "u03b1"}

InitValidate == InitWith(Strings(ValidatorChars, MaxLen))

SpecValidate == InitValidate /\ [][Next]_vars

\* Texts of letters, breathings and spaces
BreathingChars == {"a", "h", "r", "(", ")", " "}

InitBreathing == InitWith(Strings(BreathingChars, MaxLen))

SpecBreathing == InitBreathing /\ [][Next]_vars

\* The tokens of the converter's mapping table, each as a text of its own
Tokens == {Substitutions[k][1] : k \in 1..Len(Substitutions)}

InitTokens == InitWith(Tokens)

SpecTokens == InitTokens /\ [][Next]_vars

\* Texts in both letter cases, with and without the capital marker
CaseChars == {"a", "A", "s", "S", "*", ")", "/", " ", "#", "3"}

InitCase == InitWith(Strings(CaseChars, MaxLen))

SpecCase == InitCase /\ [][Next]_vars

\* Texts around one letter, in either case, with or without the capital
\* marker: before it stand up to MaxContext of a sigma, a bare capital and
\* a marked letter, after it at most one of them
BetacodeLetters ==
    <<"a", "b", "c", "d", "e", "f", "g", "h", "i",
      "k", "l", "m", "n", "o", "p", "q", "r", "s",
      "t", "u", "v", "w", "x", "y", "z">>

MaxContext == 1

ContextUnits == {<<"s">>, <<"B">>, <<"*", "w">>}

RECURSIVE Contexts(_)
Contexts(n) ==
    IF n = 0 THEN {<<>>}
    ELSE Contexts(n - 1) \cup
         {c \o unit : c \in Contexts(n - 1), unit \in ContextUnits}

LetterTexts ==
    {pre \o marker \o <<c>> \o post :
        pre \in Contexts(MaxContext), post \in Contexts(1),
        marker \in {<<>>, <<"*">>},
        c \in {BetacodeLetters[k] : k \in 1..Len(BetacodeLetters)} \cup
              {UpperOf[BetacodeLetters[k]] : k \in 1..Len(BetacodeLetters)}}

InitLetters == InitWith(LetterTexts)

SpecLetters == InitLetters /\ [][Next]_vars

\* Texts for the round trip: letters, a sigma, the capital marker, marks,
\* punctuation and a digit, and the words of the line of the Iliad that the
\* tests convert
IliadWords ==
    {<<"m", "h", "=", "n", "i", "n">>,
     <<"a", ")", "/", "e", "i", "d", "e">>,
     <<"q", "e", "a", "\\">>,
     <<"*", "p", "h", "l", "h", "i", "+", "a", "/", "d", "e", "w">>,
     <<"*", "a", ")", "x", "i", "l", "h", "=", "o", "s">>}

RoundTripChars == {"a", "s", "*", "A", ")", "/", "|", ";", "3", " "}

InitRoundTrip == InitWith(Strings(RoundTripChars, MaxLen) \cup IliadWords)

SpecRoundTrip == InitRoundTrip /\ [][Next]_vars

\* Texts around one archaic-letter token: before and after it stand up to
\* MaxContext of a letter, a sigma and the capital marker
ArchaicDigits == {"1", "2", "3", "5"}

ArchaicTokens ==
    {<<"#", n>> : n \in ArchaicDigits} \cup
        {<<"*", "#", n>> : n \in ArchaicDigits}

ArchaicTexts ==
    {pre \o token \o post :
        pre \in Strings({"a", "s", "*"}, MaxContext),
        token \in ArchaicTokens,
        post \in Strings({"a", "s", "*"}, MaxContext)}

InitArchaic == InitWith(ArchaicTexts)

SpecArchaic == InitArchaic /\ [][Next]_vars

\* The tokens of the mapping table and the characters validate accepts,
\* each as a text of its own
InitAccepted == InitWith(Tokens \cup {<<c>> : c \in valid_chars})

SpecAccepted == InitAccepted /\ [][Next]_vars

\* Texts over a letter and the diacritic marks, runs with repeated accents
\* or breathings included
MaxRun == 4

ReorderChars == {"a", ")", "/", "=", "|"}

InitReorder == InitWith(Strings(ReorderChars, MaxRun))

SpecReorder == InitReorder /\ [][Next]_vars

-----------------------------------------------------------------------------
(* Properties                                                              *)

\* The value convert returned, once the call has ended
Returned == IF pc = "panicked" THEN Panic ELSE buf

Occurs(c, s) == \E i \in 1..Len(s) : s[i] = c

AllAscii(s) == \A i \in 1..Len(s) : s[i] \in Ascii

InAlphabet(s) == \A i \in 1..Len(s) : s[i] \in valid_chars

\* Rank of a diacritic mark in the canonical order
Rank(c) == IF c \in Breathings THEN 1 ELSE IF c \in Accents THEN 2 ELSE 3

\* C1: for every input made only of characters of the accepted alphabet
\* (so for every input validate accepts), convert returns a string and never
\* panics: find_upper never reads past the end of its input.
C1_ConvertTotal == InAlphabet(input) => pc # "panicked"

\* C2: the sigma markers select the variant whatever the position: s1 gives
\* final sigma, s3 lunate sigma, *s3 capital lunate sigma, a word ending in
\* s3 ends in lunate sigma, and the marker digit is not in the output.
OnlySigmaMarkers(s) ==
    /\ \E i \in 1..Len(s) : s[i] \in {"1", "3"}
    /\ \A i \in 1..Len(s) :
          /\ s[i] \in {"1", "3"} => i > 1 /\ s[i - 1] = "s"
          /\ s[i] # ";"

C2_SigmaMarkers ==
    pc = "converted" =>
        /\ input = <<"s", "1">> => buf = <<"u03c2">>
        /\ input = <<"s", "3">> => buf = <<"u03f2">>
        /\ input = <<"*", "s", "3">> => buf = <<"u03f9">>
        /\ input = <<"a", "s", "3">> => buf = <<"u03b1", "u03f2">>
        /\ OnlySigmaMarkers(input) => ~Occurs("1", buf) /\ ~Occurs("3", buf)

\* C3: for every input validate accepts, a lowercase sigma that is
\* immediately followed by a word boundary of the alphabet (space, newline,
\* . , ; : ') or by the end of the text comes out as final sigma: when every
\* lowercase sigma of the input stands so, the output holds no medial sigma.
WordBoundaries == {" ", "\n", ".", ",", ";", ":", "'"}

LowercaseSigmaAt(s, i) == s[i] = "s" /\ (i = 1 \/ s[i - 1] # "*")

EverySigmaFinal(s) ==
    /\ \E i \in 1..Len(s) : LowercaseSigmaAt(s, i)
    /\ \A i \in 1..Len(s) :
          LowercaseSigmaAt(s, i) => i = Len(s) \/ s[i + 1] \in WordBoundaries

C3_FinalSigma ==
    pc = "converted" /\ validate(input) = Ok /\ EverySigmaFinal(input)
        => ~Occurs("u03c3", buf)

\* C4: a base letter followed by a cluster of at most one breathing or
\* diaeresis, at most one accent and at most one sub-iota converts to the
\* same text in whatever order the marks are typed: the output is that of
\* the cluster in the order breathing/diaeresis, accent, sub-iota.
Only(s, class) == SelectSeq(s, LAMBDA c : c \in class)

ClusterOf(s) == SubSeq(s, 2, 1 + run(s, 2, Marks))

AfterCluster(s) == SubSeq(s, 2 + run(s, 2, Marks), Len(s))

SimpleCluster(m) ==
    /\ Len(Only(m, Breathings)) <= 1
    /\ Len(Only(m, Accents)) <= 1
    /\ Len(Only(m, {"|"})) <= 1

CanonicalOrder(m) == Only(m, Breathings) \o Only(m, Accents) \o Only(m, {"|"})

C4_TypingOrder ==
    pc = "converted" /\ SimpleCluster(ClusterOf(input))
        => buf = convert(<<input[1]>> \o CanonicalOrder(ClusterOf(input))
                             \o AfterCluster(input))

\* C4 witness: sub-iota, accent and breathing typed in the reverse of the
\* canonical order still give alpha with psili, oxia and ypogegrammeni.
C4_Witness ==
    pc = "converted" /\ input = <<"a", "|", "/", ")">> /\ buf = <<"u1f84">>

RECURSIVE FirstOccurrences(_, _)
FirstOccurrences(s, offending) ==
    IF s = <<>> THEN <<>>
    ELSE LET front == SubSeq(s, 1, Len(s) - 1)
             c == s[Len(s)]
         IN IF c \in offending /\ ~Occurs(c, front)
            THEN Append(FirstOccurrences(front, offending), c)
            ELSE FirstOccurrences(front, offending)

Chars(s) == {s[i] : i \in 1..Len(s)}

C6_Deduplicated ==
    pc = "validated" =>
        /\ verdict.tag = "NotASCII"
              => verdict.list = FirstOccurrences(input, Chars(input) \ Ascii)
        /\ verdict.tag = "InvalidChars"
              => verdict.list
                     = FirstOccurrences(input, Chars(input) \ valid_chars)

\* C7: the diacritic-order check is complete: every ASCII input with a
\* cluster (marks after a letter) whose marks are not in the order breathing
\* or diaeresis, accent (/ \ or =), sub-iota gets InvalidDiacriticOrder
\* with a non-empty list of the offending substrings.
MisorderedCluster(s) ==
    \E i, j \in 2..Len(s) :
        /\ i < j
        /\ \A k \in i..j : s[k] \in Marks
        /\ Rank(s[i]) > Rank(s[j])
        /\ \E b \in 1..(i - 1) :
              /\ s[b] \in AsciiLower \cup AsciiUpper
              /\ \A k \in (b + 1)..(i - 1) : s[k] \in Marks

C7_OrderCheckComplete ==
    pc = "validated" /\ AllAscii(input) /\ MisorderedCluster(input)
        => verdict.tag = "InvalidDiacriticOrder" /\ verdict.list # <<>>

\* C8: the diacritic-order check reports only out-of-order runs: an input of
\* the alphabet in which every run of marks is in canonical order, a lone
\* breathing on a consonant such as rho or marks after a space included, is
\* accepted with Ok.
InCanonicalOrder(s) ==
    \A i, j \in 1..Len(s) :
        i < j /\ (\A k \in i..j : s[k] \in Marks) => Rank(s[i]) < Rank(s[j])

C8_OrderedAccepted ==
    pc = "validated" /\ InAlphabet(input) /\ InCanonicalOrder(input)
        => verdict = Ok

\* C9: every token of the converter's mapping table is made of characters of
\* the validator's alphabet: validate, which for a single token comes down
\* to standard_characteres, returns Ok for each.
C9_TokensAccepted ==
    pc = "validated" /\ input \in Tokens
        => verdict = Ok /\ standard_characteres(input) = Ok

\* C10: convert lowers the whole entry first: the result for an input is the
\* result for its lowercase spelling, so bare capitals without "*" give the
\* lowercase Greek letters.
LowercaseSpelling(s) ==
    [i \in 1..Len(s) |-> IF s[i] \in AsciiUpper THEN LowerOf[s[i]] ELSE s[i]]

RECURSIVE StarSpelling(_, _)
StarSpelling(s, i) ==
    IF i > Len(s) THEN <<>>
    ELSE IF s[i] \in AsciiUpper /\ (i = 1 \/ s[i - 1] # "*")
         THEN <<"*", s[i]>> \o StarSpelling(s, i + 1)
         ELSE <<s[i]>> \o StarSpelling(s, i + 1)

\* A text that mixes lowercase letters and bare capital letters
MixedCase(s) ==
    /\ \E i \in 1..Len(s) : s[i] \in AsciiLower
    /\ \E i \in 1..Len(s) : s[i] \in AsciiUpper /\ (i = 1 \/ s[i - 1] # "*")

\* C11: in a text that mixes lowercase and bare capital ASCII letters,
\* convert renders each bare capital letter as the capital Greek letter,
\* as it renders the letter after the capital marker: the text converts to
\* what its spelling with markers converts to ("aB" as "a*B")
C11_BareCapitals ==
    (pc = "converted" /\ MixedCase(input))
        => buf = convert(StarSpelling(input, 1))

\* The Greek letters of the Betacode letters, small and capital, as the
\* tests of convert spell them out
SmallGreek ==
    <<"u03b1", "u03b2", "u03be", "u03b4", "u03b5", "u03c6",
      "u03b3", "u03b7", "u03b9", "u03ba", "u03bb", "u03bc",
      "u03bd", "u03bf", "u03c0", "u03b8", "u03c1", "u03c3",
      "u03c4", "u03c5", "u03dd", "u03c9", "u03c7", "u03c8",
      "u03b6">>

CapitalGreek ==
    <<"u0391", "u0392", "u039e", "u0394", "u0395", "u03a6",
      "u0393", "u0397", "u0399", "u039a", "u039b", "u039c",
      "u039d", "u039f", "u03a0", "u0398", "u03a1", "u03a3",
      "u03a4", "u03a5", "u03dc", "u03a9", "u03a7", "u03a8",
      "u0396">>

LetterIndex(c) ==
    CHOOSE k \in 1..Len(BetacodeLetters) :
        c \in {BetacodeLetters[k], UpperOf[BetacodeLetters[k]]}

IsBetacodeLetter(c) ==
    \E k \in 1..Len(BetacodeLetters) :
        c \in {BetacodeLetters[k], UpperOf[BetacodeLetters[k]]}

\* Every capital marker of s stands immediately before a Betacode letter
MarkersBeforeLetters(s) ==
    /\ \A i \in 1..Len(s) : s[i] = "*" \/ IsBetacodeLetter(s[i])
    /\ \A i \in 1..Len(s) :
           s[i] = "*" => (i < Len(s) /\ IsBetacodeLetter(s[i + 1]))

\* The positions of the letters of s, in order
LetterPositions(s) == SelectSeq([i \in 1..Len(s) |-> i], LAMBDA i : s[i] # "*")

\* The small forms of a letter: sigma has a medial and a final one
SmallForms(c) ==
    {SmallGreek[LetterIndex(c)]} \cup
        (IF c \in {"s", "S"} THEN {"u03c2"} ELSE {})

SingleConvention(s) ==
    ~(Occurs("*", s) /\ \E i \in 1..Len(s) : s[i] \in AsciiUpper)

\* Well-formed Betacode in the notation with the capital marker and in
\* canonical diacritic order: accepted by validate, no capital letter, every
\* marker before a letter or an archaic-letter token, every digit after a
\* sigma or `#`
WellFormed(s) ==
    /\ validate(s) = Ok
    /\ InCanonicalOrder(s)
    /\ \A i \in 1..Len(s) :
          /\ s[i] \notin AsciiUpper
          /\ s[i] = "*" =>
                (i < Len(s) /\ s[i + 1] \in AsciiLower \cup {"#"})
          /\ s[i] \in {"1", "2", "3"} =>
                (i > 1 /\ s[i - 1] \in {"s", "#"})

\* The words of that line with their Greek spelling in the test revert_ok
IliadPairs ==
    {<<<<"m", "h", "=", "n", "i", "n">>,
       <<"u03bc", "u1fc6", "u03bd", "u03b9", "u03bd">>>>,
     <<<<"a", ")", "/", "e", "i", "d", "e">>,
       <<"u1f04", "u03b5", "u03b9", "u03b4", "u03b5">>>>,
     <<<<"q", "e", "a", "\\">>,
       <<"u03b8", "u03b5", "u1f70">>>>,
     <<<<"*", "p", "h", "l", "h", "i", "+", "a", "/", "d", "e", "w">>,
       <<"u03a0", "u03b7", "u03bb", "u03b7", "u03ca", "u03ac", "u03b4", "u03b5", "u03c9">>>>,
     <<<<"*", "a", ")", "x", "i", "l", "h", "=", "o", "s">>,
       <<"u1f08", "u03c7", "u03b9", "u03bb", "u1fc6", "u03bf", "u03c2">>>>}

\* Converting what revert gives for a converted text gives that text again
RoundTripAgain ==
    (pc = "converted" /\ validate(input) = Ok /\ SingleConvention(input))
        => convert(revert(buf)) = buf

\* revert gives back a well-formed text from its conversion
RoundTripBack ==
    /\ (pc = "converted" /\ WellFormed(input)) => revert(buf) = input
    /\ (pc = "converted" /\ input \in IliadWords) =>
          \E p \in IliadPairs : p[1] = input /\ revert(p[2]) = input

\* C13: round trip.  For every input accepted by validate that uses one
\* case convention, converting, reverting and converting again gives the
\* first conversion; and for well-formed Betacode with the capital marker
\* and in canonical diacritic order, reverting the conversion gives the
\* input back, as for the line of the Iliad
C13_RoundTrip == RoundTripAgain /\ RoundTripBack

\* main has ended
Exited == pc \in {"exit_ok", "exit_1", "main_panicked"}

\* main has ended and ran in default mode
DefaultMode == Exited /\ ~args.inverse /\ ~args.strict

\* C14: in the default mode of the command line program a character
\* outside ASCII or outside the accepted alphabet is always fatal: for every
\* such input convert_line returns the NotASCII or InvalidChars error, the
\* program exits with status 1, and no converted text is printed or written
C14_ForeignFatal ==
    (DefaultMode /\ ~InAlphabet(input)) =>
        /\ convert_line(input).tag \in {"NotASCII", "InvalidChars"}
        /\ pc = "exit_1"
        /\ stdout = <<>>
        /\ file = None

\* A text made only of Betacode letters, in either case
OnlyLetters(s) == \A i \in 1..Len(s) : IsBetacodeLetter(s[i])

C16_EmptyInput ==
    input = <<>> =>
        /\ pc # "panicked"
        /\ pc = "converted" => buf = <<>>
        /\ pc = "validated" => verdict = Ok

C16_Witness == input = <<>> /\ pc = "converted" /\ buf = <<>>

\* A cluster of one accent with one breathing or diaeresis and any number
\* of sub-iotas, or of one accent with sub-iotas and no breathing
AccentedCluster(m) ==
    /\ Len(Only(m, Accents)) = 1
    /\ \/ Len(Only(m, Breathings)) = 1
       \/ Len(Only(m, Breathings)) = 0 /\ Len(Only(m, {"|"})) >= 1

\* C17: reorder_diacritics by itself puts every such cluster, typed in any
\* order after its base letter, in canonical order: breathing or diaeresis,
\* then accent, then the sub-iotas after all other marks
C17_ReorderCanonical ==
    (pc = "reorder_diacritics_returned" /\ AccentedCluster(ClusterOf(input)))
        => buf = <<input[1]>> \o CanonicalOrder(ClusterOf(input))
                     \o AfterCluster(input)

\* The archaic letters of the tokens: Koppa, Stigma, Archaic Koppa, Sampi
ArchaicCapital ==
    [n \in ArchaicDigits |->
        CASE n = "1" -> "u03de" [] n = "2" -> "u03da"
          [] n = "3" -> "u03d8" [] n = "5" -> "u03e0"]

ArchaicSmall ==
    [n \in ArchaicDigits |->
        CASE n = "1" -> "u03df" [] n = "2" -> "u03db"
          [] n = "3" -> "u03d9" [] n = "5" -> "u03e1"]

\* The number of places of s at which pat stands
Count(s, pat) ==
    Cardinality({i \in 1..Len(s) :
        i + Len(pat) - 1 <= Len(s) /\ SubSeq(s, i, i + Len(pat) - 1) = pat})

\* C18: the archaic-letter tokens are converted as a whole.  convert gives
\* a capital archaic letter for every `*#n` of the input and a small one for
\* every `#n` without the marker (a token alone gives its letter alone);
\* find_upper leaves every `*#n` as it is; and the output never has a
\* left-over `*` before the small letter of `#n`
C18_ArchaicTokens ==
    /\ pc = "converted" =>
          /\ \A n \in ArchaicDigits :
                /\ Count(buf, <<ArchaicCapital[n]>>) = Count(input, <<"*", "#", n>>)
                /\ Count(buf, <<ArchaicSmall[n]>>) =
                       Count(input, <<"#", n>>) - Count(input, <<"*", "#", n>>)
                /\ Count(buf, <<"*", ArchaicSmall[n]>>) = 0
                /\ input = <<"*", "#", n>> => buf = <<ArchaicCapital[n]>>
                /\ input = <<"#", n>> => buf = <<ArchaicSmall[n]>>
          /\ ~Occurs("#", buf)
    /\ pc = "find_upper_returned" =>
          /\ \A n \in ArchaicDigits :
                Count(buf, <<"*", "#", n>>) = Count(input, <<"*", "#", n>>)
          /\ input \in ArchaicTokens => buf = input

\* The capital sampi between a sigma and a letter
C18_Witness ==
    /\ pc = "converted"
    /\ input = <<"s", "*", "#", "5", "a">>
    /\ buf = <<"u03c3", "u03e0", "u03b1">>

\* The Greek question mark: U+037E, or the semicolon that is its canonical
\* equivalent and that normalisation writes for it
GreekQuestionMark == {<<"u037e">>, <<";">>}

\* C19: in what convert returns, `;` is the Greek question mark and `:` the
\* middle dot, and no other single token or accepted character has the
\* output of `;`
C19_Punctuation ==
    pc = "converted" =>
        /\ input = <<";">> => buf \in GreekQuestionMark
        /\ input = <<":">> => buf = <<"u00b7">>
        /\ input # <<";">> => buf # convert(<<";">>)

\* The text the program prints in the mode of args when no output path is
\* given (without the line end of println)
PrintedWithoutPath ==
    IF args.inverse THEN revert_line(revert_line(input)) ELSE convert(input)

\* C20: in every mode of the command line program that ends with success,
\* when an output path is given the result is written to that file and
\* nothing to standard output, and the text written is the text printed
\* when no path is given; standard output is used only without a path
C20_OutputPath ==
    (Exited /\ pc = "exit_ok") =>
        IF args.output = None
        THEN stdout = println(PrintedWithoutPath) /\ file = None
        ELSE stdout = <<>> /\ file = Some(PrintedWithoutPath)

\* No accent of s, with the sub-iotas that may follow it, stands immediately
\* before a breathing or diaeresis
NoAccentBeforeBreathing(s) ==
    \A a \in 1..Len(s) :
        s[a] \in Accents =>
            LET b == a + 1 + bars(s, a + 1)
            IN ~(b <= Len(s) /\ s[b] \in Breathings)

\* No run of marks of s has two accents or two breathings or diaereses
SingleMarks(s) ==
    \A i, j \in 1..Len(s) :
        (i < j /\ \A k \in i..j : s[k] \in Marks) =>
            /\ ~(s[i] \in Accents /\ s[j] \in Accents)
            /\ ~(s[i] \in Breathings /\ s[j] \in Breathings)

\* C21 as stated: reorder_diacritics is idempotent on every text of letters
\* and diacritic marks: a second pass changes nothing, and after one pass
\* no accent, with the sub-iotas that may follow it, stands immediately
\* before a breathing or diaeresis
C21_ReorderIdempotent ==
    pc = "reorder_diacritics_returned" =>
        /\ reorder_diacritics(buf) = buf
        /\ NoAccentBeforeBreathing(buf)

\* C21 amended: the same for every text in which no run of marks has more
\* than one accent or more than one breathing or diaeresis
C21_ReorderIdempotentSingle ==
    (pc = "reorder_diacritics_returned" /\ SingleMarks(input)) =>
        /\ reorder_diacritics(buf) = buf
        /\ NoAccentBeforeBreathing(buf)

\* Sub-iota, accent and breathing after a letter, reordered by one pass
C21_Witness ==
    /\ pc = "reorder_diacritics_returned"
    /\ input = <<"a", "/", "|", ")">>
    /\ buf = <<"a", ")", "/", "|">>

\* C22: the diacritic-order verdict does not depend on letter case: for
\* every ASCII input, validate returns InvalidDiacriticOrder exactly when
\* it does for the lowercase spelling of the input, and with the same list
C22_OrderCaseIndependent ==
    (pc = "validated" /\ AllAscii(input)) =>
        LET lowered == validate(LowercaseSpelling(input))
        IN /\ verdict.tag = "InvalidDiacriticOrder"
                <=> lowered.tag = "InvalidDiacriticOrder"
           /\ verdict.tag = "InvalidDiacriticOrder"
                => verdict.list = lowered.list

=============================================================================
